---- MODULE Spec2Model ----
(***************************************************************************)
(* Model of the fridata frontend: the useDataTransform workflow controller *)
(* (hooks/useDataTransform.ts), the App component that drives it and keeps *)
(* the chat transcript, the gating done by ChatCommand and FileUploader,   *)
(* and the gateway calls of lib/api.                                        *)
(*                                                                         *)
(* Every handler runs to its first await in one step (JavaScript is        *)
(* single-threaded and run-to-completion); the continuation after the      *)
(* await is a second step, taken when the gateway call resolves or         *)
(* rejects.  A call that has been issued and has not yet settled is a      *)
(* record in `inflight`.                                                    *)
(***************************************************************************)
EXTENDS Integers, Sequences, FiniteSets, TLC

\* ------------------------------------------------------------------ bounds
\* number of user intents (upload / prompt / confirm / reset) in one run
MaxOps == 5
\* number of calls made on the controller when it is driven on its own
MaxCalls == 3
\* largest byte count reported by an upload progress event
MaxBytes == 2

\* ------------------------------------------------------------- null values
\* null / undefined of a string-typed field
Null == "null"
\* null of datasetProfile (an absent profile; a present one is <<profile>>)
NoProfile == << >>
\* null of executionResult (a present one is <<result>>)
NoResult == << >>
\* undefined of ExecutionResult.preview (a present one is <<rows>>)
NoPreview == << >>

\* JavaScript truthiness of a string | null | undefined value
Truthy(s) == s # Null /\ s # ""

\* ------------------------------------------------------------ input domains
\* job ids issued by the backend: one fresh id per successful upload
JobName(n) == "job" \o ToString(n)

\* cell values: JSON scalars, tagged with their JavaScript type
Num(n) == [t |-> "number", v |-> n]
Str(x) == [t |-> "string", v |-> x]
NullValue == [t |-> "null"]
\* what reading a key that the row does not have yields
Undefined == [t |-> "undefined"]

RowA == [id |-> Num(1), price |-> Str("10")]
RowB == [id |-> Num(2), price |-> NullValue]
\* DatasetProfile.preview values returned by uploads
Previews == { <<RowA>>, <<RowA, RowB>> }
\* DatasetProfile.columns
Columns == << "id", "price" >>

\* String(x)
JsString(x) ==
    IF x.t = "number" THEN ToString(x.v)
    ELSE IF x.t = "string" THEN x.v
    ELSE IF x.t = "null" THEN "null"
    ELSE "undefined"

\* x ?? ''
OrEmpty(x) == IF x.t \in {"null", "undefined"} THEN Str("") ELSE x

\* row[col.name]: undefined when the row has no such key
Field(row, name) == IF name \in DOMAIN row THEN row[name] ELSE Undefined

StepDrop == [operation |-> "drop_nulls", parameters |-> "{}"]
StepFill == [operation |-> "fill", parameters |-> "{\"value\":0}"]
\* PlanResponse.steps values returned by the planning service
Plans == { << >>, <<StepDrop>>, <<StepDrop, StepFill>> }

\* prompts typed in the chat box (non-blank after trim)
Prompts == { "drop nulls" }

\* ExecutionResult.status
Statuses == { "pending", "analyzing", "ready", "processing", "completed", "failed" }
\* ExecutionResult.error?: string | null
ResultErrors == { Null, "", "division by zero" }
\* ExecutionResult.download_url?: string | null
DownloadUrls == { Null, "/download" }
\* ExecutionResult.preview?: Row[]
ResultPreviews == { NoPreview, << <<RowA>> >> }

\* err.response?.data?.detail of a rejected gateway call
Details == { Null, "", "server detail" }

\* the results the backend returns for a job: any status with any error
\* value; only a completed run carries a download_url or a preview
ExecutionResults(job) ==
    { r \in [ job_id : {job}, status : Statuses, download_url : DownloadUrls,
              error : ResultErrors, preview : ResultPreviews ] :
        r.status # "completed" =>
            (r.download_url = Null /\ r.preview = NoPreview) }

VARIABLES
    jobId, datasetProfile, proposedSteps, isProcessing, error,
    uploadProgress, executionResult, currentData,
    history,
    inflight,
    nOps,
    nJobs,
    lastResponse,
    planJob,
    diffView

hookVars == << jobId, datasetProfile, proposedSteps, isProcessing, error,
               uploadProgress, executionResult, currentData >>
vars == << jobId, datasetProfile, proposedSteps, isProcessing, error,
           uploadProgress, executionResult, currentData, history, inflight,
           nOps, nJobs, lastResponse, planJob, diffView >>

\* the fields reset() clears: the observable Job snapshot
snapshot == << jobId, datasetProfile, currentData, proposedSteps,
               executionResult, error, uploadProgress >>

\* ------------------------------------------------------- DataDiffViewer
\* variant: the values are compared as they are (===), not as strings
IsChanged_StrictEquality(originalData, i, row, name) ==
    LET hasOriginal == i <= Len(originalData)
        originalVal == IF hasOriginal THEN Field(originalData[i], name)
                       ELSE Undefined
        newVal == Field(row, name)
    IN  hasOriginal /\ originalVal # newVal

\* the right pane's isChanged for row i (counted from 1) of the cleaned data
IsChanged(originalData, i, row, name) ==
    LET hasOriginal == i <= Len(originalData)
        originalVal == IF hasOriginal THEN Field(originalData[i], name)
                       ELSE Undefined
        newVal == Field(row, name)
    IN  hasOriginal /\ JsString(originalVal) # JsString(newVal)

\* showDiff = !!cleanedData (an array, even an empty one, is truthy)
ShowDiff(cleanedData) == cleanedData # NoPreview

\* variant: the last row that still has a counterpart is marked removed too
IsRemoved_OffByOne(cleanedData, i) ==
    ShowDiff(cleanedData) /\ i >= Len(cleanedData[1])

\* the left pane's line-through for original row i (counted from 1):
\* showDiff && cleanedData && cleanedData[i] === undefined
IsRemoved(cleanedData, i) ==
    ShowDiff(cleanedData) /\ i > Len(cleanedData[1])

\* what the component renders: per original row and column the text and the
\* removed mark, per cleaned row and column the text and the changed mark
DataDiffViewer(originalData, cleanedData, columns) ==
    [ showDiff |-> ShowDiff(cleanedData),
      left |-> [ i \in 1..Len(originalData) |->
                   [ k \in 1..Len(columns) |->
                       [ text |-> JsString(OrEmpty(Field(originalData[i], columns[k]))),
                         removed |-> IsRemoved(cleanedData, i) ] ] ],
      right |-> IF ShowDiff(cleanedData)
                THEN [ i \in 1..Len(cleanedData[1]) |->
                         [ k \in 1..Len(columns) |->
                             [ text |-> JsString(OrEmpty(Field(cleanedData[1][i], columns[k]))),
                               changed |-> IsChanged(originalData, i,
                                                     cleanedData[1][i], columns[k]) ] ] ]
                ELSE << >> ]

\* the "Upload a file to view data" placeholder
EmptyState == [ showDiff |-> FALSE, left |-> << >>, right |-> << >> ]

\* the right pane of App: the viewer when there is a profile
DataView(profile, data, result) ==
    IF profile = NoProfile
    THEN EmptyState
    ELSE DataDiffViewer(data,
                        IF result = NoResult THEN NoPreview ELSE result[1].preview,
                        profile[1].columns)

Init ==
    /\ jobId = Null
    /\ datasetProfile = NoProfile
    /\ proposedSteps = << >>
    /\ isProcessing = FALSE
    /\ error = Null
    /\ uploadProgress = 0
    /\ executionResult = NoResult
    /\ currentData = << >>
    /\ history = << [role |-> "ai", content |-> <<"Ready. Upload a dataset to begin.">>] >>
    /\ inflight = {}
    /\ nOps = 0
    /\ nJobs = 0
    /\ lastResponse = [outcome |-> "none"]
    /\ planJob = Null
    /\ diffView = EmptyState

\* --------------------------------------------------------- gateway calls
\* a gateway call that has been issued and has not settled; resetSince
\* records whether reset() ran after the call was issued, entry is the
\* position of the user entry logged when it was issued (0 for an upload)
Call(kind, job, prompt) ==
    [ id |-> nOps + 1, kind |-> kind, jobId |-> job, prompt |-> prompt,
      resetSince |-> FALSE,
      entry |-> IF kind = "upload" THEN 0 ELSE Len(history) + 1 ]

Uploads == { c \in inflight : c.kind = "upload" }
PlanCalls == { c \in inflight : c.kind = "plan" }
ExecuteCalls == { c \in inflight : c.kind = "execute" }

\* variant: the server detail is dropped, the stage default always shown
ErrorMessage_AlwaysFallback(detail, fallback) == fallback

\* `detail || fallback` of the three catch blocks
ErrorMessage(detail, fallback) == IF Truthy(detail) THEN detail ELSE fallback

\* Math.round((loaded * 100) / (total || 1)), loaded and total non-negative
PercentCompleted(loaded, total) ==
    LET t == IF total = 0 THEN 1 ELSE total
    IN  (2 * loaded * 100 + t) \div (2 * t)

\* -------------------------------------------------------- transcript (App)
UserEntry(text) == [role |-> "user", content |-> <<text>>]

\* the plan effect: one ai entry listing the steps, only for a non-empty plan
PlanEntry(steps) ==
    [ role |-> "ai",
      content |-> << "I have generated a plan:",
                     [i \in 1..Len(steps) |->
                         <<i, steps[i].operation, steps[i].parameters>>],
                     "Please confirm to execute." >> ]

\* variant: the plan entry is appended for an empty plan too
PlanEffect_Always(h, steps) == Append(h, PlanEntry(steps))

PlanEffect(h, steps) ==
    IF Len(steps) > 0 THEN Append(h, PlanEntry(steps)) ELSE h

\* variant: every result that is not completed is reported as a failure
ExecutionEffect_AnyStatus(h, result) ==
    IF result.status = "completed"
    THEN Append(h, [role |-> "ai", content |-> <<"Transformation Complete!">>])
    ELSE Append(h, [role |-> "ai",
                    content |-> <<"Execution Failed: ", result.error>>])

\* the execution effect: an ai entry for completed and for failed only
ExecutionEffect(h, result) ==
    IF result.status = "completed"
    THEN Append(h, [role |-> "ai", content |-> <<"Transformation Complete!">>])
    ELSE IF result.status = "failed"
         THEN Append(h, [role |-> "ai",
                         content |-> <<"Execution Failed: ", result.error>>])
         ELSE h

\* ------------------------------------------------- controller: call starts
handleUpload ==
    /\ isProcessing' = TRUE
    /\ error' = Null
    /\ uploadProgress' = 0
    /\ inflight' = inflight \cup { Call("upload", Null, Null) }
    /\ UNCHANGED << jobId, datasetProfile, proposedSteps, executionResult,
                    currentData >>

\* variant: the no-job early return is missing
handleTransformRequest_NoGuard(prompt) ==
    /\ isProcessing' = TRUE
    /\ error' = Null
    /\ inflight' = inflight \cup { Call("plan", jobId, prompt) }
    /\ UNCHANGED << jobId, datasetProfile, proposedSteps, uploadProgress,
                    executionResult, currentData >>

handleTransformRequest(prompt) ==
    IF ~Truthy(jobId)
    THEN UNCHANGED << hookVars, inflight >>
    ELSE /\ isProcessing' = TRUE
         /\ error' = Null
         /\ inflight' = inflight \cup { Call("plan", jobId, prompt) }
         /\ UNCHANGED << jobId, datasetProfile, proposedSteps, uploadProgress,
                         executionResult, currentData >>

\* variant: setError(null) at the start of the call is missing
handleExecute_KeepsError ==
    IF ~Truthy(jobId)
    THEN UNCHANGED << hookVars, inflight >>
    ELSE /\ isProcessing' = TRUE
         /\ inflight' = inflight \cup { Call("execute", jobId, Null) }
         /\ UNCHANGED << jobId, datasetProfile, proposedSteps, uploadProgress,
                         executionResult, currentData, error >>

handleExecute ==
    IF ~Truthy(jobId)
    THEN UNCHANGED << hookVars, inflight >>
    ELSE /\ isProcessing' = TRUE
         /\ error' = Null
         /\ inflight' = inflight \cup { Call("execute", jobId, Null) }
         /\ UNCHANGED << jobId, datasetProfile, proposedSteps, uploadProgress,
                         executionResult, currentData >>

\* variant: the execution result survives a reset
reset_KeepsResult ==
    /\ jobId' = Null
    /\ datasetProfile' = NoProfile
    /\ proposedSteps' = << >>
    /\ planJob' = Null
    /\ currentData' = << >>
    /\ error' = Null
    /\ uploadProgress' = 0
    /\ inflight' = { [c EXCEPT !.resetSince = TRUE] : c \in inflight }
    /\ UNCHANGED << isProcessing, executionResult >>

\* variant: reset also clears the processing flag
reset_ClearsProcessing ==
    /\ jobId' = Null
    /\ datasetProfile' = NoProfile
    /\ proposedSteps' = << >>
    /\ planJob' = Null
    /\ executionResult' = NoResult
    /\ currentData' = << >>
    /\ error' = Null
    /\ uploadProgress' = 0
    /\ isProcessing' = FALSE
    /\ inflight' = { [c EXCEPT !.resetSince = TRUE] : c \in inflight }

reset ==
    /\ jobId' = Null
    /\ datasetProfile' = NoProfile
    /\ proposedSteps' = << >>
    /\ planJob' = Null
    /\ executionResult' = NoResult
    /\ currentData' = << >>
    /\ error' = Null
    /\ uploadProgress' = 0
    /\ inflight' = { [c EXCEPT !.resetSince = TRUE] : c \in inflight }
    /\ UNCHANGED isProcessing

\* ------------------------------------------------------ App event handlers
\* the right pane is rendered again after every state update
Rerender == diffView' = DataView(datasetProfile', currentData', executionResult')

onUpload ==
    /\ handleUpload
    /\ UNCHANGED << history, planJob >>
    /\ Rerender

onChatSubmit(text) ==
    /\ history' = Append(history, UserEntry(text))
    /\ handleTransformRequest(text)
    /\ UNCHANGED planJob
    /\ Rerender

onConfirmPlan ==
    /\ history' = Append(history, UserEntry("Confirmed. Execute plan."))
    /\ handleExecute
    /\ UNCHANGED planJob
    /\ Rerender

\* variant: the reset button starts the transcript over as well
onReset_ClearsTranscript ==
    /\ reset
    /\ history' = << [role |-> "ai",
                      content |-> <<"Ready. Upload a dataset to begin.">>] >>
    /\ Rerender

onReset ==
    /\ reset
    /\ UNCHANGED history
    /\ Rerender

\* ------------------------------------- controller: continuations of a call
\* variant: setCurrentData(profile.preview) is missing
UploadResolved_KeepsPreview(c, preview) ==
    LET profile == [ job_id |-> JobName(nJobs + 1), filename |-> "data.csv",
                     columns |-> Columns, preview |-> preview ]
    IN  /\ jobId' = profile.job_id
        /\ datasetProfile' = <<profile>>
        /\ currentData' = currentData
        /\ isProcessing' = FALSE
        /\ inflight' = inflight \ {c}
        /\ nJobs' = nJobs + 1
        /\ lastResponse' = [call |-> c, outcome |-> "resolved", profile |-> profile]
        /\ UNCHANGED << proposedSteps, error, uploadProgress, executionResult,
                        history, nOps >>
        /\ UNCHANGED planJob
        /\ Rerender

\* handleUpload after the await: uploadFile resolved with a profile
UploadResolved(c, preview) ==
    LET profile == [ job_id |-> JobName(nJobs + 1), filename |-> "data.csv",
                     columns |-> Columns, preview |-> preview ]
    IN  /\ jobId' = profile.job_id
        /\ datasetProfile' = <<profile>>
        /\ currentData' = profile.preview
        /\ isProcessing' = FALSE
        /\ inflight' = inflight \ {c}
        /\ nJobs' = nJobs + 1
        /\ lastResponse' = [call |-> c, outcome |-> "resolved", profile |-> profile]
        /\ UNCHANGED << proposedSteps, error, uploadProgress, executionResult,
                        history, nOps >>
        /\ UNCHANGED planJob
        /\ Rerender

\* handleUpload after the await: uploadFile rejected
UploadRejected(c, detail) ==
    /\ error' = ErrorMessage(detail, "Upload failed")
    /\ isProcessing' = FALSE
    /\ inflight' = inflight \ {c}
    /\ lastResponse' = [call |-> c, outcome |-> "rejected", detail |-> detail]
    /\ UNCHANGED << jobId, datasetProfile, proposedSteps, uploadProgress,
                    executionResult, currentData, history, nOps, nJobs >>
    /\ UNCHANGED planJob
    /\ Rerender

\* onUploadProgress callback of a pending upload
UploadProgressEvent(c, loaded, total) ==
    /\ uploadProgress' = PercentCompleted(loaded, total)
    /\ lastResponse' = [call |-> c, outcome |-> "progress", loaded |-> loaded,
                        total |-> total]
    /\ UNCHANGED << jobId, datasetProfile, proposedSteps, isProcessing, error,
                    executionResult, currentData, history, inflight, nOps,
                    nJobs >>
    /\ UNCHANGED planJob
    /\ Rerender

\* variant: the new steps are appended to the plan already stored
PlanResolved_Appends(c, steps) ==
    /\ proposedSteps' = proposedSteps \o steps
    /\ history' = PlanEffect(history, proposedSteps \o steps)
    /\ isProcessing' = FALSE
    /\ inflight' = inflight \ {c}
    /\ lastResponse' = [call |-> c, outcome |-> "resolved", steps |-> steps]
    /\ UNCHANGED << jobId, datasetProfile, error, uploadProgress,
                    executionResult, currentData, nOps, nJobs >>
    /\ planJob' = c.jobId
    /\ Rerender

\* handleTransformRequest after the await: generatePlan resolved
PlanResolved(c, steps) ==
    /\ proposedSteps' = steps
    /\ history' = PlanEffect(history, steps)
    /\ isProcessing' = FALSE
    /\ inflight' = inflight \ {c}
    /\ lastResponse' = [call |-> c, outcome |-> "resolved", steps |-> steps]
    /\ UNCHANGED << jobId, datasetProfile, error, uploadProgress,
                    executionResult, currentData, nOps, nJobs >>
    /\ planJob' = c.jobId
    /\ Rerender

\* variant: a failed plan request also discards the stored execution result
PlanRejected_DropsResult(c, detail) ==
    /\ error' = ErrorMessage(detail, "Planning failed")
    /\ isProcessing' = FALSE
    /\ executionResult' = NoResult
    /\ inflight' = inflight \ {c}
    /\ lastResponse' = [call |-> c, outcome |-> "rejected", detail |-> detail]
    /\ UNCHANGED << jobId, datasetProfile, proposedSteps, uploadProgress,
                    currentData, history, nOps, nJobs >>
    /\ UNCHANGED planJob
    /\ Rerender

\* variant: the finally block is skipped when the plan request is rejected
PlanRejected_NoFinally(c, detail) ==
    /\ error' = ErrorMessage(detail, "Planning failed")
    /\ isProcessing' = isProcessing
    /\ inflight' = inflight \ {c}
    /\ lastResponse' = [call |-> c, outcome |-> "rejected", detail |-> detail]
    /\ UNCHANGED << jobId, datasetProfile, proposedSteps, uploadProgress,
                    executionResult, currentData, history, nOps, nJobs >>
    /\ UNCHANGED planJob
    /\ Rerender

\* handleTransformRequest after the await: generatePlan rejected
PlanRejected(c, detail) ==
    /\ error' = ErrorMessage(detail, "Planning failed")
    /\ isProcessing' = FALSE
    /\ inflight' = inflight \ {c}
    /\ lastResponse' = [call |-> c, outcome |-> "rejected", detail |-> detail]
    /\ UNCHANGED << jobId, datasetProfile, proposedSteps, uploadProgress,
                    executionResult, currentData, history, nOps, nJobs >>
    /\ UNCHANGED planJob
    /\ Rerender

\* variant: every status other than completed is treated as a failure
ExecuteResolved_NonCompletedFails(c, result) ==
    /\ executionResult' = <<result>>
    /\ error' = IF result.status # "completed"
                THEN ErrorMessage(result.error, "Execution failed")
                ELSE error
    /\ history' = ExecutionEffect(history, result)
    /\ isProcessing' = FALSE
    /\ inflight' = inflight \ {c}
    /\ lastResponse' = [call |-> c, outcome |-> "resolved", result |-> result]
    /\ UNCHANGED << jobId, datasetProfile, proposedSteps, uploadProgress,
                    currentData, nOps, nJobs >>
    /\ UNCHANGED planJob
    /\ Rerender

\* variant: result.error is surfaced without the "Execution failed" default
ExecuteResolved_NoFallback(c, result) ==
    /\ executionResult' = <<result>>
    /\ error' = IF result.status = "failed" THEN result.error ELSE error
    /\ history' = ExecutionEffect(history, result)
    /\ isProcessing' = FALSE
    /\ inflight' = inflight \ {c}
    /\ lastResponse' = [call |-> c, outcome |-> "resolved", result |-> result]
    /\ UNCHANGED << jobId, datasetProfile, proposedSteps, uploadProgress,
                    currentData, nOps, nJobs >>
    /\ UNCHANGED planJob
    /\ Rerender

\* handleExecute after the await: executePlan resolved with a result
ExecuteResolved(c, result) ==
    /\ executionResult' = <<result>>
    /\ error' = IF result.status = "failed"
                THEN ErrorMessage(result.error, "Execution failed")
                ELSE error
    /\ history' = ExecutionEffect(history, result)
    /\ isProcessing' = FALSE
    /\ inflight' = inflight \ {c}
    /\ lastResponse' = [call |-> c, outcome |-> "resolved", result |-> result]
    /\ UNCHANGED << jobId, datasetProfile, proposedSteps, uploadProgress,
                    currentData, nOps, nJobs >>
    /\ UNCHANGED planJob
    /\ Rerender

\* handleExecute after the await: executePlan rejected
ExecuteRejected(c, detail) ==
    /\ error' = ErrorMessage(detail, "Execution failed")
    /\ isProcessing' = FALSE
    /\ inflight' = inflight \ {c}
    /\ lastResponse' = [call |-> c, outcome |-> "rejected", detail |-> detail]
    /\ UNCHANGED << jobId, datasetProfile, proposedSteps, uploadProgress,
                    executionResult, currentData, history, nOps, nJobs >>
    /\ UNCHANGED planJob
    /\ Rerender

\* ------------------------------------------------------------ what is shown
\* variant: the uploader stays rendered while a job is active
UploaderShown_Always == TRUE

\* FileUploader is rendered only when there is no job
UploaderShown == ~Truthy(jobId)
\* isUploading prop: the drop zone and the file input are disabled
IsUploading == isProcessing /\ datasetProfile = NoProfile
\* ChatCommand is rendered only when there is a job
ChatShown == Truthy(jobId)
\* variant: the prompt box does not look at isProcessing
CanSubmit_IgnoresProcessing(text) == text # ""

\* ChatCommand.handleSubmit sends only a non-blank input while not processing
CanSubmit(text) == text # "" /\ ~isProcessing
\* the Execute Plan button
ConfirmShown ==
    Len(proposedSteps) > 0 /\ executionResult = NoResult /\ ~isProcessing
\* the Reset button
ResetShown == Truthy(jobId)

\* ------------------------------------------------------------- user intents
SelectFile ==
    /\ nOps < MaxOps
    /\ UploaderShown /\ ~IsUploading
    /\ onUpload
    /\ nOps' = nOps + 1
    /\ UNCHANGED << nJobs, lastResponse >>

SubmitPrompt ==
    /\ nOps < MaxOps
    /\ ChatShown
    /\ \E text \in Prompts :
          /\ CanSubmit(text)
          /\ onChatSubmit(text)
    /\ nOps' = nOps + 1
    /\ UNCHANGED << nJobs, lastResponse >>

ClickConfirm ==
    /\ nOps < MaxOps
    /\ ConfirmShown
    /\ onConfirmPlan
    /\ nOps' = nOps + 1
    /\ UNCHANGED << nJobs, lastResponse >>

ClickReset ==
    /\ nOps < MaxOps
    /\ ResetShown
    /\ onReset
    /\ nOps' = nOps + 1
    /\ UNCHANGED << nJobs, lastResponse >>

\* ------------------------------------------------------- gateway responses
UploadSucceeds == \E c \in Uploads, p \in Previews : UploadResolved(c, p)
UploadFails == \E c \in Uploads, d \in Details : UploadRejected(c, d)
UploadProgresses ==
    \E c \in Uploads, total \in 0..MaxBytes, loaded \in 0..MaxBytes :
        /\ total > 0 => loaded <= total
        /\ UploadProgressEvent(c, loaded, total)
PlanSucceeds == \E c \in PlanCalls, s \in Plans : PlanResolved(c, s)
PlanFails == \E c \in PlanCalls, d \in Details : PlanRejected(c, d)
ExecuteSucceeds ==
    \E c \in ExecuteCalls :
        \E r \in ExecutionResults(c.jobId) : ExecuteResolved(c, r)
ExecuteFails == \E c \in ExecuteCalls, d \in Details : ExecuteRejected(c, d)

Responses ==
    \/ UploadSucceeds
    \/ UploadFails
    \/ UploadProgresses
    \/ PlanSucceeds
    \/ PlanFails
    \/ ExecuteSucceeds
    \/ ExecuteFails

\* the application: the controller driven through the rendered controls
Next ==
    \/ SelectFile
    \/ SubmitPrompt
    \/ ClickConfirm
    \/ ClickReset
    \/ Responses

Spec == Init /\ [][Next]_vars

\* ----------------------------------------------- the controller on its own
\* the hook's operations called by any caller, in any state
CallUpload ==
    /\ nOps < MaxCalls
    /\ onUpload
    /\ nOps' = nOps + 1
    /\ UNCHANGED << nJobs, lastResponse >>

CallRequestPlan ==
    /\ nOps < MaxCalls
    /\ \E text \in Prompts : onChatSubmit(text)
    /\ nOps' = nOps + 1
    /\ UNCHANGED << nJobs, lastResponse >>

CallConfirmPlan ==
    /\ nOps < MaxCalls
    /\ onConfirmPlan
    /\ nOps' = nOps + 1
    /\ UNCHANGED << nJobs, lastResponse >>

CallReset ==
    /\ nOps < MaxCalls
    /\ onReset
    /\ nOps' = nOps + 1
    /\ UNCHANGED << nJobs, lastResponse >>

NextController ==
    \/ CallUpload
    \/ CallRequestPlan
    \/ CallConfirmPlan
    \/ CallReset
    \/ Responses

SpecController == Init /\ [][NextController]_vars

\* ------------------------------------------- a gateway that settles calls
\* the gateway settles call c: its promise resolves or rejects
Settle(c) ==
    \/ /\ c.kind = "upload"
       /\ \/ \E p \in Previews : UploadResolved(c, p)
          \/ \E d \in Details : UploadRejected(c, d)
    \/ /\ c.kind = "plan"
       /\ \/ \E s \in Plans : PlanResolved(c, s)
          \/ \E d \in Details : PlanRejected(c, d)
    \/ /\ c.kind = "execute"
       /\ \/ \E r \in ExecutionResults(c.jobId) : ExecuteResolved(c, r)
          \/ \E d \in Details : ExecuteRejected(c, d)

\* every call that was issued is eventually settled (calls are numbered
\* from 1 to n in the order they are issued)
EveryCallSettles(n) ==
    \A i \in 1..n :
        WF_vars(\E c \in inflight : c.id = i /\ Settle(c))

\* the application, and the controller on its own, with a gateway that
\* settles every call
SpecLive == Spec /\ EveryCallSettles(MaxOps)

SpecControllerLive == SpecController /\ EveryCallSettles(MaxCalls)

\* --------------------------------------------------- the diff on its own
\* the viewer fed with any pair of previews: a job whose plan has been
\* confirmed (upload, prompt, plan, confirm) and whose execute call is in
\* flight, for every original preview; then the result arrives with every
\* cleaned preview, or with none
MaxDiffRows == 2

\* values of the two columns: numbers and strings with equal and different
\* text, null, the empty string; price may be missing from a row
IdValues == { Num(1), Str("1"), Num(2) }
PriceValues == { NullValue, Str("") }
DiffRows ==
    { [id |-> a] : a \in IdValues }
        \cup { [id |-> a, price |-> b] : a \in IdValues, b \in PriceValues }
DiffPreviews == UNION { [1..n -> DiffRows] : n \in 0..MaxDiffRows }

InitDiff ==
    \E p \in DiffPreviews :
        LET profile == [ job_id |-> JobName(1), filename |-> "data.csv",
                         columns |-> Columns, preview |-> p ]
            planCall == [ id |-> 2, kind |-> "plan", jobId |-> JobName(1),
                          prompt |-> "drop nulls", resetSince |-> FALSE,
                          entry |-> 2 ]
            executeCall == [ id |-> 3, kind |-> "execute", jobId |-> JobName(1),
                             prompt |-> Null, resetSince |-> FALSE, entry |-> 4 ]
        IN  /\ jobId = JobName(1)
            /\ datasetProfile = <<profile>>
            /\ proposedSteps = <<StepDrop>>
            /\ isProcessing = TRUE
            /\ error = Null
            /\ uploadProgress = 0
            /\ executionResult = NoResult
            /\ currentData = p
            /\ history = << [role |-> "ai",
                             content |-> <<"Ready. Upload a dataset to begin.">>],
                            UserEntry("drop nulls"),
                            PlanEntry(<<StepDrop>>),
                            UserEntry("Confirmed. Execute plan.") >>
            /\ inflight = { executeCall }
            /\ nOps = 3
            /\ nJobs = 1
            /\ lastResponse = [ call |-> planCall, outcome |-> "resolved",
                                steps |-> <<StepDrop>> ]
            /\ planJob = JobName(1)
            /\ diffView = DataView(<<profile>>, p, NoResult)

ResultArrives ==
    \E c \in ExecuteCalls :
        \E cleaned \in { NoPreview } \cup { <<q>> : q \in DiffPreviews } :
            ExecuteResolved(c, [ job_id |-> c.jobId, status |-> "completed",
                                 download_url |-> "/download", error |-> Null,
                                 preview |-> cleaned ])

NextDiff == ResultArrives

SpecDiff == InitDiff /\ [][NextDiff]_vars

\* =================================================================== claims
\* the gateway delivered a response (or progress event) in this step
Delivered == lastResponse' # lastResponse

\* the last thing the gateway delivered settled a call of this kind this way
Settled(kind, outcome) ==
    /\ lastResponse.outcome = outcome
    /\ lastResponse.call.kind = kind

\* the stage-specific default message of a failed call
StageDefault(kind) ==
    IF kind = "upload" THEN "Upload failed"
    ELSE IF kind = "plan" THEN "Planning failed"
    ELSE "Execution failed"

\* the initial Idle snapshot
IdleSnapshot ==
    /\ jobId = Null
    /\ datasetProfile = NoProfile
    /\ proposedSteps = << >>
    /\ executionResult = NoResult
    /\ error = Null
    /\ uploadProgress = 0

\* C1: a response that settles a call issued before a reset() leaves jobId,
\* profile, working preview, plan, execution result, error and progress
\* exactly as reset left them.
C1_LateResponseDiscarded ==
    [][ (\E c \in inflight : c.resetSince /\ c \notin inflight')
            => UNCHANGED snapshot ]_vars

\* C2: reset() called in any state, also with calls in flight, yields
\* jobId = null, profile = null, plan = [], result = null, error = null,
\* progress = 0.
C2_ResetYieldsIdle == [][ CallReset => IdleSnapshot' ]_vars

\* reset ran while an upload was in flight and left the Idle snapshot
C2_Witness ==
    /\ IdleSnapshot
    /\ nJobs > 0
    /\ \E c \in inflight : c.resetSince /\ c.kind = "upload"

\* C3 as stated: when execute returns a result the controller ends Completed
\* (result stored, no error) iff the status is completed and otherwise
\* Failed (an error is set), for each of the six statuses.
C3_CompletedElseFailed ==
    [][ (Delivered /\ Settled("execute", "resolved")')
            => LET r == lastResponse'.result
               IN  /\ executionResult' = <<r>>
                   /\ r.status = "completed" => error' = Null
                   /\ r.status # "completed" => error' # Null ]_vars

\* C3 amended: when execute returns a result it is stored, and an error is
\* set iff the status is failed; completed and the four non-terminal
\* statuses leave the error null.
C3_FailedIffStatusFailed ==
    [][ (Delivered /\ Settled("execute", "resolved")')
            => LET r == lastResponse'.result
               IN  /\ executionResult' = <<r>>
                   /\ error' # Null <=> r.status = "failed" ]_vars

\* a non-terminal status was returned: result stored, no error
C3_Witness ==
    /\ Settled("execute", "resolved")
    /\ lastResponse.result.status = "processing"
    /\ executionResult = <<lastResponse.result>>
    /\ error = Null
    /\ inflight = {}

\* C4 as stated: for a result with status failed the active error equals
\* ExecutionResult.error, whatever error value the result carries.
C4_ErrorIsResultError ==
    [][ (Delivered /\ Settled("execute", "resolved")'
            /\ lastResponse'.result.status = "failed")
            => /\ executionResult' = <<lastResponse'.result>>
               /\ error' = lastResponse'.result.error ]_vars

\* C4 amended: for a result with status failed the result is stored and the
\* active error equals ExecutionResult.error when that is a non-empty
\* string, and is "Execution failed" when it is null, absent or empty.
C4_ErrorIsResultErrorOrDefault ==
    [][ (Delivered /\ Settled("execute", "resolved")'
            /\ lastResponse'.result.status = "failed")
            => /\ executionResult' = <<lastResponse'.result>>
               /\ error' = IF lastResponse'.result.error \in {Null, ""}
                           THEN "Execution failed"
                           ELSE lastResponse'.result.error ]_vars

\* a failed result without an error string ended with the default message
C4_Witness ==
    /\ Settled("execute", "resolved")
    /\ lastResponse.result.status = "failed"
    /\ lastResponse.result.error = Null
    /\ executionResult = <<lastResponse.result>>
    /\ error = "Execution failed"

\* C5: requestPlan and confirmPlan called with no active job issue no
\* gateway call and leave jobId, profile, plan, result, error, progress,
\* working preview and isProcessing unchanged.
C5_NoJobNoOp ==
    [][ ((CallRequestPlan \/ CallConfirmPlan) /\ jobId = Null)
            => UNCHANGED << hookVars, inflight >> ]_vars

\* both operations were called before any upload and nothing was started
C5_Witness ==
    /\ nJobs = 0
    /\ inflight = {}
    /\ ~isProcessing
    /\ \E i, j \in 1..Len(history) :
          /\ history[i] = UserEntry("Confirmed. Execute plan.")
          /\ history[j].role = "user"
          /\ history[j] # history[i]

\* C6: when an upload fails, jobId is null, the profile is null, the
\* working preview is empty and an error is set.
C6_UploadFailureLeavesNoJob ==
    [][ (Delivered /\ Settled("upload", "rejected")')
            => /\ jobId' = Null
               /\ datasetProfile' = NoProfile
               /\ currentData' = << >>
               /\ error' # Null ]_vars

\* an upload failed after an earlier job had been created and reset
C6_Witness ==
    /\ Settled("upload", "rejected")
    /\ nJobs > 0
    /\ jobId = Null
    /\ error = "Upload failed"

\* C7: a rejected upload, plan or execute call stores, as the error, the
\* server detail when there is a (non-empty) one and the default of its
\* stage otherwise, whatever the error was before.
C7_FailureMessage ==
    [][ (Delivered /\ lastResponse'.outcome = "rejected")
            => error' = IF lastResponse'.detail \in {Null, ""}
                        THEN StageDefault(lastResponse'.call.kind)
                        ELSE lastResponse'.detail ]_vars

\* a plan call was rejected with a server detail while another call, issued
\* later, is still in flight
C7_Witness ==
    /\ Settled("plan", "rejected")
    /\ lastResponse.detail = "server detail"
    /\ error = "server detail"
    /\ \E c \in inflight : c.id > lastResponse.call.id

\* the error a delivered response produces (null when it produces none)
ErrorOf(resp) ==
    IF resp.outcome = "rejected"
    THEN IF resp.detail \in {Null, ""}
         THEN StageDefault(resp.call.kind) ELSE resp.detail
    ELSE IF resp.outcome = "resolved" /\ resp.call.kind = "execute"
            /\ resp.result.status = "failed"
         THEN IF resp.result.error \in {Null, ""}
              THEN "Execution failed" ELSE resp.result.error
         ELSE Null

\* C8: while a gateway call is in flight the error is null (each call and
\* reset clear it), and an error that is shown is the one produced by the
\* most recently settled call.
C8_ErrorClearedAtCallStart ==
    /\ inflight # {} => error = Null
    /\ error # Null => error = ErrorOf(lastResponse)

\* a call was issued after an earlier call had failed, and no reset ran
\* since: the start of the call cleared the error
C8_Witness ==
    /\ lastResponse.outcome = "rejected"
    /\ error = Null
    /\ \E c \in inflight : c.id > lastResponse.call.id /\ ~c.resetSince

\* C9: while an upload, plan or execute call is in flight isProcessing is
\* true.
C9_InFlightIsProcessing == inflight # {} => isProcessing

\* a call is still in flight after reset ran, and the flag is still set
C9_Witness ==
    /\ isProcessing
    /\ jobId = Null
    /\ \E c \in inflight : c.resetSince /\ c.kind = "execute"

\* C10: through the rendered controls at most one of upload / plan /
\* execute is in flight.
C10_AtMostOneInFlight == Cardinality(inflight) <= 1

\* reset ran while a plan call was in flight: the uploader is shown again
\* but disabled, so no second call can start
C10_Witness ==
    /\ UploaderShown
    /\ IsUploading
    /\ \E c \in inflight : c.resetSince /\ c.kind = "plan"

\* C11 as stated: a requestPlan with an active job clears the stored plan
\* when it is called, so the plan is empty in every state in which a plan
\* request is in flight.
C11_PlanClearedWhilePlanning == PlanCalls # {} => proposedSteps = << >>

\* C12: a requestPlan that succeeds stores exactly the steps of the
\* response, in the response's order, whatever plan was stored before; so
\* the same response delivered twice leaves the same plan as once.
C12_PlanReplaced ==
    [][ (Delivered /\ Settled("plan", "resolved")')
            => proposedSteps' = lastResponse'.steps ]_vars

\* the same two-step plan was returned for two prompts (the transcript
\* lists it twice) and the stored plan is that plan, once
C12_Witness ==
    /\ Settled("plan", "resolved")
    /\ lastResponse.steps = <<StepDrop, StepFill>>
    /\ proposedSteps = <<StepDrop, StepFill>>
    /\ \E i, j \in 1..Len(history) :
          /\ i < j
          /\ history[i] = PlanEntry(<<StepDrop, StepFill>>)
          /\ history[j] = history[i]

\* a job is active and the stored plan was returned by a plan request
\* issued for that job
PlanBelongsToJob == jobId # Null /\ planJob = jobId

\* C13 as stated: a non-empty proposed plan belongs to the active job: the
\* plan is non-empty only if jobId is non-null and the plan was returned by
\* a plan request issued for that jobId.
C13_PlanOfActiveJob == proposedSteps # << >> => PlanBelongsToJob

\* ----------------------------------------------------------------- C14-C16
\* the two previews the viewer compares, and whether it compares at all
Original == currentData
DiffShown == executionResult # NoResult /\ executionResult[1].preview # NoPreview
Cleaned == executionResult[1].preview[1]
SharedRows == { i \in 1..Len(Cleaned) : i <= Len(Original) }
SharedCells == SharedRows \X (1..Len(Columns))
OriginalValue(cell) == Field(Original[cell[1]], Columns[cell[2]])
CleanedValue(cell) == Field(Cleaned[cell[1]], Columns[cell[2]])
\* the cells whose value is not the same value (type and content) in both
Differing == { cell \in SharedCells : OriginalValue(cell) # CleanedValue(cell) }
Changed(cell) == diffView.right[cell[1]][cell[2]].changed

\* C14 (as stated): for two previews of equal length, if no cell differs in
\* value no cell is marked changed, and if exactly one cell differs in value
\* that cell is marked changed and no other cell is.
C14_SingleCellChange ==
    (DiffShown /\ Len(Cleaned) = Len(Original)) =>
        /\ Differing = {} => \A cell \in SharedCells : ~Changed(cell)
        /\ Cardinality(Differing) = 1 =>
               \A cell \in SharedCells : Changed(cell) <=> cell \in Differing

\* C14 (amended): for two previews of equal length, if no cell differs in
\* value no cell is marked changed, and if exactly one cell differs in value
\* no other cell is marked changed, and that cell is marked changed exactly
\* when the String() forms of its two values differ (1 against "1" stays
\* unchanged).
C14_SingleCellTextChange ==
    (DiffShown /\ Len(Cleaned) = Len(Original)) =>
        /\ Differing = {} => \A cell \in SharedCells : ~Changed(cell)
        /\ Cardinality(Differing) = 1 =>
               \A cell \in SharedCells :
                   Changed(cell) <=>
                       /\ cell \in Differing
                       /\ JsString(OriginalValue(cell)) # JsString(CleanedValue(cell))

\* two rows of two columns; only the id of the second row was changed, from
\* 1 to 2, and only that cell is marked
C14_Witness ==
    /\ DiffShown
    /\ Len(Original) = 2 /\ Len(Cleaned) = 2
    /\ Differing = { <<2, 1>> }
    /\ OriginalValue(<<2, 1>>) = Num(1) /\ CleanedValue(<<2, 1>>) = Num(2)
    /\ Changed(<<2, 1>>)
    /\ ~Changed(<<1, 1>>) /\ ~Changed(<<1, 2>>) /\ ~Changed(<<2, 2>>)

\* the case the statement gets wrong: the id was changed from 1 to "1"
C14_SameText ==
    /\ DiffShown
    /\ Len(Original) = 1 /\ Len(Cleaned) = 1
    /\ Differing = { <<1, 1>> }
    /\ OriginalValue(<<1, 1>>) = Num(1) /\ CleanedValue(<<1, 1>>) = Str("1")
    /\ ~Changed(<<1, 1>>)

RemovedMark(i, k) == diffView.left[i][k].removed

\* C15: a cell of original row i is struck through as removed exactly when a
\* cleaned preview is present and has no row i (i is beyond its length); in
\* particular no cell is removed while no cleaned preview is present.
C15_RemovedRows ==
    /\ DOMAIN diffView.left = 1..Len(Original)
    /\ \A i \in 1..Len(Original) : \A k \in 1..Len(Columns) :
           RemovedMark(i, k) <=> (DiffShown /\ i > Len(Cleaned))

\* two original rows, one cleaned row: the second original row is struck
\* through in both columns, the first in neither
C15_Witness ==
    /\ DiffShown
    /\ Len(Original) = 2 /\ Len(Cleaned) = 1
    /\ RemovedMark(2, 1) /\ RemovedMark(2, 2)
    /\ ~RemovedMark(1, 1) /\ ~RemovedMark(1, 2)

\* C16 (as stated): for every row present in both previews and every column,
\* the cell is marked changed exactly when the texts of the two values differ
\* after null, undefined and a missing key have become the empty string.
C16_ChangedIffDisplayedTextDiffers ==
    DiffShown =>
        \A cell \in SharedCells :
            Changed(cell) <=>
                JsString(OrEmpty(OriginalValue(cell)))
                    # JsString(OrEmpty(CleanedValue(cell)))

\* a null price against a missing price: both cells show the empty text, yet
\* the cell is marked changed
C16_NullAgainstMissing ==
    /\ DiffShown
    /\ Len(Original) = 1 /\ Len(Cleaned) = 1
    /\ OriginalValue(<<1, 2>>) = NullValue /\ CleanedValue(<<1, 2>>) = Undefined
    /\ diffView.left[1][2].text = "" /\ diffView.right[1][2].text = ""
    /\ Changed(<<1, 2>>)

\* ----------------------------------------------------------------- C17-C19
\* the entries a step adds to the transcript
Appended ==
    { history'[i] : i \in (Len(history) + 1)..Len(history') }
IsPlanEntry(e) == e.role = "ai" /\ e.content[1] = "I have generated a plan:"
PlanStored == Delivered /\ Settled("plan", "resolved")'
\* the entry lists exactly these steps, in their order, numbered from 1
ListsSteps(e, steps) ==
    /\ IsPlanEntry(e)
    /\ Len(e.content[2]) = Len(steps)
    /\ \A i \in 1..Len(steps) :
           e.content[2][i] = <<i, steps[i].operation, steps[i].parameters>>
AppendsOne == Len(history') = Len(history) + 1 /\ SubSeq(history', 1, Len(history)) = history

\* C17 (as stated): every step that stores a received plan, whatever its
\* length, appends exactly one ai entry listing the plan's steps in order,
\* numbered from 1; no other step appends a plan entry.
C17_EveryPlanLogged ==
    [][ /\ PlanStored =>
              AppendsOne /\ ListsSteps(history'[Len(history')], lastResponse'.steps)
        /\ ~PlanStored => \A e \in Appended : ~IsPlanEntry(e) ]_vars

\* C17 (amended): every step that stores a received plan with at least one
\* step appends exactly one ai entry listing the plan's steps in order,
\* numbered from 1 (also when the plan equals the previous one); storing a
\* received plan with zero steps leaves the transcript as it is; no other
\* step appends a plan entry.
C17_NonEmptyPlanLogged ==
    [][ /\ (PlanStored /\ lastResponse'.steps # << >>) =>
              AppendsOne /\ ListsSteps(history'[Len(history')], lastResponse'.steps)
        /\ (PlanStored /\ lastResponse'.steps = << >>) => history' = history
        /\ ~PlanStored => \A e \in Appended : ~IsPlanEntry(e) ]_vars

\* a two-step plan was just stored and the transcript ends with the prompt
\* followed by the entry that lists step 1 and step 2
C17_Witness ==
    /\ Settled("plan", "resolved")
    /\ lastResponse.steps = <<StepDrop, StepFill>>
    /\ proposedSteps = lastResponse.steps
    /\ Len(history) >= 3
    /\ history[Len(history) - 1] = UserEntry(lastResponse.call.prompt)
    /\ ListsSteps(history[Len(history)], <<StepDrop, StepFill>>)
    /\ history[Len(history)].content[2][2][1] = 2

SuccessEntry == [role |-> "ai", content |-> <<"Transformation Complete!">>]
FailureEntry(err) == [role |-> "ai", content |-> <<"Execution Failed: ", err>>]
IsExecutionEntry(e) ==
    e.role = "ai" /\ e.content[1] \in {"Transformation Complete!", "Execution Failed: "}
ResultStored == Delivered /\ Settled("execute", "resolved")'
ReportsResult(r) ==
    /\ AppendsOne
    /\ history'[Len(history')] =
           IF r.status = "completed" THEN SuccessEntry ELSE FailureEntry(r.error)

\* C18 (as stated): every step that stores a received execution result
\* appends exactly one ai entry, the success message for status completed
\* and the result's error otherwise; no other step appends such an entry.
C18_EveryResultLogged ==
    [][ /\ ResultStored => ReportsResult(lastResponse'.result)
        /\ ~ResultStored => \A e \in Appended : ~IsExecutionEntry(e) ]_vars

\* C18 (amended): a step that stores a received execution result appends
\* exactly one ai entry when the status is completed (the success message)
\* or failed (the result's error string as received), and leaves the
\* transcript as it is for every other status; no other step appends such
\* an entry.
C18_TerminalResultLogged ==
    [][ /\ (ResultStored /\ lastResponse'.result.status \in {"completed", "failed"}) =>
              ReportsResult(lastResponse'.result)
        /\ (ResultStored /\ lastResponse'.result.status \notin {"completed", "failed"}) =>
              history' = history
        /\ ~ResultStored => \A e \in Appended : ~IsExecutionEntry(e) ]_vars

\* a failed result was just stored: the transcript ends with the confirm
\* entry followed by the entry carrying the result's error
C18_Witness ==
    /\ Settled("execute", "resolved")
    /\ lastResponse.result.status = "failed"
    /\ lastResponse.result.error = "division by zero"
    /\ executionResult = <<lastResponse.result>>
    /\ history[Len(history) - 1] = UserEntry("Confirmed. Execute plan.")
    /\ history[Len(history)] = FailureEntry("division by zero")

\* the user entry that announced a plan or execute call
Announcement(c) ==
    IF c.kind = "plan" THEN UserEntry(c.prompt)
    ELSE UserEntry("Confirmed. Execute plan.")
Announced(c, h) == c.entry \in 1..Len(h) /\ h[c.entry] = Announcement(c)

\* C19: every step keeps the transcript's existing entries in place and only
\* adds at the end (reset included); while a plan or execute call is in
\* flight its user entry is already in the transcript; and when such a call
\* settles, whatever the step appends comes after that user entry.
C19_AppendOnlyOptimistic ==
    [][ /\ Len(history') >= Len(history)
        /\ SubSeq(history', 1, Len(history)) = history
        /\ \A c \in inflight' :
               c.kind \in {"plan", "execute"} => Announced(c, history')
        /\ (Delivered /\ lastResponse'.call.kind \in {"plan", "execute"}) =>
               /\ Announced(lastResponse'.call, history)
               /\ lastResponse'.call.entry <= Len(history) ]_vars

\* after a reset the transcript still holds the confirm entry and, right
\* after it, the ai entry that reports the execution it announced
C19_Witness ==
    /\ jobId = Null /\ inflight = {}
    /\ Settled("execute", "resolved")
    /\ Announced(lastResponse.call, history)
    /\ lastResponse.call.entry + 1 = Len(history)
    /\ history[Len(history)] = SuccessEntry

\* ----------------------------------------------------------------- C20
\* C20 (as stated): the upload progress is a whole number from 0 to 100 in
\* every reachable state.
C20_ProgressWithinRange == uploadProgress \in 0..100

\* a progress event with two bytes loaded and no known total stored 200
C20_ProgressBeyondRange ==
    /\ lastResponse.outcome = "progress"
    /\ lastResponse.total = 0 /\ lastResponse.loaded = 2
    /\ uploadProgress = 200

\* ----------------------------------------------------------------- C21
\* a plan request of the active job, issued with no reset since, succeeded
\* with a plan of at least one step
FreshPlanStored ==
    /\ PlanStored
    /\ jobId # Null
    /\ lastResponse'.call.jobId = jobId
    /\ ~lastResponse'.call.resetSince
    /\ lastResponse'.steps # << >>

\* C21 (as stated): whenever a plan request of the active job succeeds, the
\* new plan is stored and the Execute Plan button is offered for it, also
\* after an execution.
C21_PlanProposedAfterPlan ==
    [][ FreshPlanStored =>
            /\ proposedSteps' = lastResponse'.steps
            /\ ConfirmShown' ]_vars

\* a re-prompt after an execution: the new plan is stored for the active
\* job, nothing is in flight, and the Execute Plan button is not rendered
C21_ReplanNotConfirmable ==
    /\ Settled("plan", "resolved")
    /\ jobId # Null /\ planJob = jobId
    /\ proposedSteps = lastResponse.steps /\ proposedSteps # << >>
    /\ executionResult # NoResult
    /\ inflight = {} /\ ~isProcessing
    /\ ~ConfirmShown

\* ----------------------------------------------------------------- C22
\* the two steps of a plan request that fails: the call is issued, and
\* later the gateway rejects it
PlanCallIssued ==
    \E c \in inflight' :
        c.kind = "plan" /\ c.id \notin { d.id : d \in inflight }
PlanFailed == Delivered /\ Settled("plan", "rejected")'

\* C22: neither issuing a plan request nor its failure changes the job id,
\* the profile, the working preview or a stored execution result; the
\* failure also leaves the plan and the progress value alone, sets an error
\* and ends processing.
C22_FailedPlanKeepsJob ==
    [][ /\ (PlanCallIssued \/ PlanFailed) =>
               UNCHANGED << jobId, datasetProfile, currentData, executionResult >>
        /\ PlanFailed =>
               /\ UNCHANGED << proposedSteps, uploadProgress >>
               /\ error' # Null
               /\ ~isProcessing' ]_vars

\* a re-prompt after an execution failed at the gateway: the job, its
\* profile, its preview and the execution result are all still there
C22_Witness ==
    /\ Settled("plan", "rejected")
    /\ ~lastResponse.call.resetSince
    /\ jobId = lastResponse.call.jobId
    /\ datasetProfile # NoProfile
    /\ currentData = datasetProfile[1].preview
    /\ executionResult # NoResult
    /\ error = "Planning failed"
    /\ ~isProcessing

\* ----------------------------------------------------------------- C23
\* there is a job id exactly when there is a profile, and then the job id
\* is the profile's and the working preview is the profile's preview
JobMatchesProfile ==
    /\ jobId # Null <=> datasetProfile # NoProfile
    /\ jobId # Null =>
           /\ jobId = datasetProfile[1].job_id
           /\ currentData = datasetProfile[1].preview
ExecuteCallIssued ==
    \E c \in inflight' :
        c.kind = "execute" /\ c.id \notin { d.id : d \in inflight }
\* a step of a plan request or of a confirm: the call is issued or settles
PlanOrExecuteStep ==
    \/ PlanCallIssued
    \/ ExecuteCallIssued
    \/ Delivered /\ lastResponse'.call.kind \in {"plan", "execute"}

\* C23: in every state the job id is non-null exactly when a profile is
\* stored, and then it equals the profile's job id and the working preview
\* equals the profile's preview; no step of a plan request or of a confirm
\* changes the profile or the working preview.
C23_JobProfilePreviewAgree ==
    [][ /\ JobMatchesProfile
        /\ JobMatchesProfile'
        /\ PlanOrExecuteStep => UNCHANGED << datasetProfile, currentData >> ]_vars

\* a job with a two-row preview has been planned for and executed: the
\* profile and the working preview are still the uploaded ones
C23_Witness ==
    /\ jobId # Null
    /\ datasetProfile # NoProfile
    /\ datasetProfile[1].job_id = jobId
    /\ currentData = <<RowA, RowB>>
    /\ datasetProfile[1].preview = <<RowA, RowB>>
    /\ proposedSteps # << >>
    /\ executionResult # NoResult
    /\ Settled("execute", "resolved")

\* ----------------------------------------------------------------- C24
\* a job is active and the stored result was returned for that job
ResultBelongsToJob == jobId # Null /\ executionResult[1].job_id = jobId

\* C24 (as stated): a stored execution result belongs to the active job:
\* the result is non-null only if jobId is non-null and the result was
\* returned by an execute call issued for that jobId.
C24_ResultOfActiveJob == executionResult # NoResult => ResultBelongsToJob

\* the result of job1 arrived after a reset and a new upload: its download
\* address is offered and its preview is diffed against job2's preview
C24_ResultOfOtherJobShown ==
    /\ jobId = JobName(2)
    /\ executionResult # NoResult
    /\ executionResult[1].job_id = JobName(1)
    /\ Truthy(executionResult[1].download_url)
    /\ diffView.showDiff

\* ----------------------------------------------------------------- C25
\* C25: when every issued call is eventually settled, the controller is
\* never processing with nothing in flight, and whenever it is processing
\* it is eventually not processing again.
C25_ProcessingEnds ==
    /\ [](inflight = {} => ~isProcessing)
    /\ isProcessing ~> ~isProcessing

\* an execute call outlived a reset and was then rejected: nothing is in
\* flight any more and the controller is not processing
C25_Witness ==
    /\ Settled("execute", "rejected")
    /\ lastResponse.call.resetSince
    /\ inflight = {}
    /\ ~isProcessing

====
